---- MODULE Spec2Model ----
(***************************************************************************)
(* Model of gcc_tester: the Calculator (GccTester::add, GccTester::is_even) *)
(* and the two gtest cases of tests/test_gcc_tester.cpp, the second of      *)
(* which (IsEvenWorks, "the Oracle") branches on the FAIL_TEST macro and on *)
(* whether std::ifstream can open /tmp/gcc_tester_fail_marker.              *)
(***************************************************************************)
EXTENDS Integers, Sequences, FiniteSets, TLC

\* Width of the C++ int type in the model (the platform's is 32; the model
\* keeps two's-complement range and overflow at a width TLC can enumerate).
IntBits == 4

INT_MIN == -(2 ^ (IntBits - 1))
INT_MAX == (2 ^ (IntBits - 1)) - 1
IntT == INT_MIN .. INT_MAX

\* a op b in int: the mathematical value when it is representable; signed
\* overflow is undefined behaviour, so then any int may come out.
IntResult(m) == IF m \in IntT THEN {m} ELSE IntT

\* C++ % truncates toward zero: the result has the sign of the dividend.
CRem(a, b) == IF a >= 0 THEN a % b ELSE -((-a) % b)

\* ---- Calculator (src/gcc_tester.cpp) ----

add_sub(a, b) == IntResult(a - b)

\* return a + b;   (the set of values the call may return)
add(a, b) == IntResult(a + b)

is_even_ne1(v) == CRem(v, 2) # 1

is_even_eq1(v) == CRem(v, 2) = 1

\* return (v % 2) == 0;
is_even(v) == CRem(v, 2) = 0

\* -v and v + 1 evaluated by a caller in int
int_neg(v) == IntResult(-v)

int_succ(v) == IntResult(v + 1)

\* ---- gtest assertions: a failed EXPECT_* adds one failure, the test goes on ----
EXPECT_TRUE(c, f) == IF c THEN f ELSE f + 1

EXPECT_FALSE(c, f) == IF c THEN f + 1 ELSE f

EXPECT_EQ(x, y, f) == IF x = y THEN f ELSE f + 1

\* ---- the marker file /tmp/gcc_tester_fail_marker ----
NoMarker == [exists |-> FALSE, readable |-> FALSE, empty |-> TRUE]

MarkerFiles == [exists : {TRUE}, readable : BOOLEAN, empty : BOOLEAN]

ofstream_open(m) ==
    [file |-> [exists |-> TRUE, readable |-> m.exists => m.readable, empty |-> TRUE],
     good |-> m.exists => m.readable]

\* std::ifstream fh(marker): opens for reading only; the stream is good iff
\* the open succeeded, i.e. the file exists and may be opened for reading.
\* The file itself is left as it was.
ifstream_open(m) == [file |-> m, good |-> m.exists /\ m.readable]

VARIABLES
    FAIL_TEST,   \* the build: was FAIL_TEST defined at compile time
    marker,      \* the marker file in the file system
    pc,          \* position of the test program
    pre,         \* the marker as it was when IsEvenWorks started
    fh_good,     \* fh.good()
    failures,    \* failed EXPECT_* of the running test
    branch,      \* which assertion on is_even(3) the Oracle chose
    log,         \* Calculator calls and marker checks of the running test, in order
    prop,        \* which Calculator call(s) the last direct use made
    x, y,        \* its arguments
    r1, r2,      \* integer results
    e1, e2       \* boolean results

vars == <<FAIL_TEST, marker, pc, pre, fh_good, failures, branch, log,
          prop, x, y, r1, r2, e1, e2>>

testVars == <<pc, pre, fh_good, failures, branch, log>>
calcVars == <<prop, x, y, r1, r2, e1, e2>>

\* the results of a direct Calculator call are dropped when its caller returns
CalcClear ==
    /\ prop' = "none"
    /\ x' = 0 /\ y' = 0 /\ r1' = 0 /\ r2' = 0
    /\ e1' = FALSE /\ e2' = FALSE

\* a test's locals and its assertion results are gone once gtest has reported it
TestClear ==
    /\ pc' = "idle"
    /\ pre' = NoMarker
    /\ fh_good' = FALSE
    /\ failures' = 0
    /\ branch' = "none"
    /\ log' = <<>>

Init ==
    /\ FAIL_TEST \in BOOLEAN
    /\ marker = NoMarker
    /\ pc = "idle"
    /\ pre = NoMarker
    /\ fh_good = FALSE
    /\ failures = 0
    /\ branch = "none"
    /\ log = <<>>
    /\ prop = "none"
    /\ x = 0 /\ y = 0 /\ r1 = 0 /\ r2 = 0
    /\ e1 = FALSE /\ e2 = FALSE

\* ---- the external harness: the only writer of the marker ----
CreateMarker ==
    /\ pc = "idle"
    /\ ~marker.exists
    /\ \E f \in MarkerFiles : marker' = f
    /\ UNCHANGED <<FAIL_TEST, testVars, calcVars>>

DeleteMarker ==
    /\ pc = "idle"
    /\ marker.exists
    /\ marker' = NoMarker
    /\ UNCHANGED <<FAIL_TEST, testVars, calcVars>>

\* ---- TEST(GccTesterBasic, AddWorks) ----
AddWorks_Start ==
    /\ pc = "idle"
    /\ pc' = "add_l9"
    /\ failures' = 0
    /\ branch' = "none"
    /\ log' = <<>>
    /\ fh_good' = FALSE
    /\ pre' = marker
    /\ UNCHANGED <<FAIL_TEST, marker, calcVars>>

AddWorks_L9 ==
    /\ pc = "add_l9"
    /\ \E r \in add(1, 2) : failures' = EXPECT_EQ(r, 3, failures)
    /\ log' = Append(log, "add")
    /\ pc' = "add_l10"
    /\ UNCHANGED <<FAIL_TEST, marker, pre, fh_good, branch, calcVars>>

AddWorks_L10 ==
    /\ pc = "add_l10"
    /\ \E r \in add(-5, 5) : failures' = EXPECT_EQ(r, 0, failures)
    /\ log' = Append(log, "add")
    /\ pc' = "add_done"
    /\ UNCHANGED <<FAIL_TEST, marker, pre, fh_good, branch, calcVars>>

\* ---- TEST(GccTesterBasic, IsEvenWorks): the Oracle ----
IsEvenWorks_Start ==
    /\ pc = "idle"
    /\ pc' = "l15"
    /\ failures' = 0
    /\ branch' = "none"
    /\ log' = <<>>
    /\ fh_good' = FALSE
    /\ pre' = marker
    /\ UNCHANGED <<FAIL_TEST, marker, calcVars>>

L15_nomacro ==
    /\ pc = "l15"
    /\ failures' = EXPECT_TRUE(is_even(2), failures)
    /\ log' = Append(log, "is_even(2)")
    /\ pc' = "l23"
    /\ UNCHANGED <<FAIL_TEST, marker, pre, fh_good, branch, calcVars>>

\* EXPECT_TRUE(t.is_even(2)); then the preprocessor has left either line 19
\* or lines 22-28.
L15 ==
    /\ pc = "l15"
    /\ failures' = EXPECT_TRUE(is_even(2), failures)
    /\ log' = Append(log, "is_even(2)")
    /\ pc' = IF FAIL_TEST THEN "l19" ELSE "l23"
    /\ UNCHANGED <<FAIL_TEST, marker, pre, fh_good, branch, calcVars>>

\* #ifdef FAIL_TEST: EXPECT_TRUE(false);
L19 ==
    /\ pc = "l19"
    /\ failures' = EXPECT_TRUE(FALSE, failures)
    /\ branch' = "flag"
    /\ pc' = "done"
    /\ UNCHANGED <<FAIL_TEST, marker, pre, fh_good, log, calcVars>>

L23_eager ==
    /\ pc = "l23"
    /\ marker' = ifstream_open(marker).file
    /\ fh_good' = ifstream_open(marker).good
    /\ log' = Append(Append(log, "is_even(3)"), "open")
    /\ pc' = "l24"
    /\ UNCHANGED <<FAIL_TEST, pre, failures, branch, calcVars>>

\* std::ifstream fh(marker);
L23 ==
    /\ pc = "l23"
    /\ marker' = ifstream_open(marker).file
    /\ fh_good' = ifstream_open(marker).good
    /\ log' = Append(log, "open")
    /\ pc' = "l24"
    /\ UNCHANGED <<FAIL_TEST, pre, failures, branch, calcVars>>

\* if (fh.good()) { EXPECT_TRUE(t.is_even(3)); }
L25 ==
    /\ pc = "l24"
    /\ fh_good
    /\ branch' = "present"
    /\ failures' = EXPECT_TRUE(is_even(3), failures)
    /\ log' = Append(log, "is_even(3)")
    /\ pc' = "done"
    /\ UNCHANGED <<FAIL_TEST, marker, pre, fh_good, calcVars>>

\* else { EXPECT_FALSE(t.is_even(3)); }
L27 ==
    /\ pc = "l24"
    /\ ~fh_good
    /\ branch' = "absent"
    /\ failures' = EXPECT_FALSE(is_even(3), failures)
    /\ log' = Append(log, "is_even(3)")
    /\ pc' = "done"
    /\ UNCHANGED <<FAIL_TEST, marker, pre, fh_good, calcVars>>

\* the test body has returned and gtest has reported it; the next test or
\* the harness may act
TestEnd ==
    /\ pc \in {"done", "add_done"}
    /\ TestClear
    /\ UNCHANGED <<FAIL_TEST, marker, calcVars>>

\* ---- direct uses of the Calculator on arbitrary arguments ----
CallAdd ==
    /\ pc = "idle"
    /\ \E a \in IntT, b \in IntT : \E r \in add(a, b) :
         /\ prop' = "add" /\ x' = a /\ y' = b /\ r1' = r /\ r2' = 0
    /\ e1' = FALSE /\ e2' = FALSE
    /\ pc' = "called"
    /\ UNCHANGED <<FAIL_TEST, marker, pre, fh_good, failures, branch, log>>

\* add(a, b) and add(b, a)
CallAddBothWays ==
    /\ pc = "idle"
    /\ \E a \in IntT, b \in IntT : \E r \in add(a, b), s \in add(b, a) :
         /\ prop' = "comm" /\ x' = a /\ y' = b /\ r1' = r /\ r2' = s
    /\ e1' = FALSE /\ e2' = FALSE
    /\ pc' = "called"
    /\ UNCHANGED <<FAIL_TEST, marker, pre, fh_good, failures, branch, log>>

\* add(a, 0)
CallAddZero ==
    /\ pc = "idle"
    /\ \E a \in IntT : \E r \in add(a, 0) :
         /\ prop' = "ident" /\ x' = a /\ y' = 0 /\ r1' = r /\ r2' = 0
    /\ e1' = FALSE /\ e2' = FALSE
    /\ pc' = "called"
    /\ UNCHANGED <<FAIL_TEST, marker, pre, fh_good, failures, branch, log>>

\* is_even(v)
CallIsEven ==
    /\ pc = "idle"
    /\ \E v \in IntT :
         /\ prop' = "is_even" /\ x' = v /\ y' = 0 /\ e1' = is_even(v)
    /\ r1' = 0 /\ r2' = 0 /\ e2' = FALSE
    /\ pc' = "called"
    /\ UNCHANGED <<FAIL_TEST, marker, pre, fh_good, failures, branch, log>>

\* is_even(v) and is_even(-v)
CallIsEvenNeg ==
    /\ pc = "idle"
    /\ \E v \in IntT : \E n \in int_neg(v) :
         /\ prop' = "neg" /\ x' = v /\ y' = n
         /\ e1' = is_even(v) /\ e2' = is_even(n)
    /\ r1' = 0 /\ r2' = 0
    /\ pc' = "called"
    /\ UNCHANGED <<FAIL_TEST, marker, pre, fh_good, failures, branch, log>>

\* is_even(v) and is_even(v + 1)
CallIsEvenSucc ==
    /\ pc = "idle"
    /\ \E v \in IntT : \E n \in int_succ(v) :
         /\ prop' = "succ" /\ x' = v /\ y' = n
         /\ e1' = is_even(v) /\ e2' = is_even(n)
    /\ r1' = 0 /\ r2' = 0
    /\ pc' = "called"
    /\ UNCHANGED <<FAIL_TEST, marker, pre, fh_good, failures, branch, log>>

\* the caller of the Calculator returns
CallReturn ==
    /\ pc = "called"
    /\ pc' = "idle"
    /\ CalcClear
    /\ UNCHANGED <<FAIL_TEST, marker, pre, fh_good, failures, branch, log>>

Next ==
    \/ CreateMarker
    \/ DeleteMarker
    \/ AddWorks_Start
    \/ AddWorks_L9
    \/ AddWorks_L10
    \/ IsEvenWorks_Start
    \/ L15
    \/ L19
    \/ L23
    \/ L25
    \/ L27
    \/ TestEnd
    \/ CallAdd
    \/ CallAddBothWays
    \/ CallAddZero
    \/ CallIsEven
    \/ CallIsEvenNeg
    \/ CallIsEvenSucc
    \/ CallReturn

Spec == Init /\ [][Next]_vars

TypeOK ==
    /\ FAIL_TEST \in BOOLEAN
    /\ marker \in MarkerFiles \cup {NoMarker}
    /\ pre \in MarkerFiles \cup {NoMarker}
    /\ pc \in {"idle", "called", "add_l9", "add_l10", "add_done", "l15", "l19", "l23", "l24", "done"}
    /\ fh_good \in BOOLEAN
    /\ failures \in 0 .. 2
    /\ branch \in {"none", "flag", "present", "absent"}
    /\ x \in IntT /\ y \in IntT /\ r1 \in IntT /\ r2 \in IntT
    /\ e1 \in BOOLEAN /\ e2 \in BOOLEAN

\* number of entries of the log equal to ev
Count(ev) == Cardinality({i \in 1 .. Len(log) : log[i] = ev})

\* position of the first entry ev of the log, 0 when there is none
First(ev) == IF Count(ev) = 0 THEN 0
             ELSE CHOOSE i \in 1 .. Len(log) :
                    log[i] = ev /\ \A j \in 1 .. (i - 1) : log[j] # ev

NoFlagRunDone == pc = "done" /\ ~FAIL_TEST

\* a direct Calculator call of the given kind has been made
Called(kind) == pc = "called" /\ prop = kind

\* v is evenly divisible by two
DivisibleByTwo(v) == \E k \in INT_MIN .. INT_MAX : v = 2 * k

\* ---------------------------------------------------------------------
\* C1: built without FAIL_TEST and with no marker file when the run
\* starts, IsEvenWorks passes: no assertion it evaluates fails, neither
\* is_even(2) is true nor is_even(3) is false.
C1_PassesWithoutFlagAndMarker ==
    (~FAIL_TEST /\ ~pre.exists /\ pc \in {"l23", "l24", "done"})
        => /\ failures = 0
           /\ pc = "done" => branch = "absent"

C1_Witness ==
    /\ NoFlagRunDone /\ ~pre.exists
    /\ branch = "absent" /\ failures = 0
    /\ Count("is_even(2)") = 1 /\ Count("is_even(3)") = 1

\* C2 (as claimed): built without FAIL_TEST, whenever the marker file
\* exists a run of IsEvenWorks fails, on the assertion is_even(3) == true.
C2_FailsWheneverMarkerExists ==
    (NoFlagRunDone /\ pre.exists) => (failures > 0 /\ branch = "present")

\* C3: built with FAIL_TEST, every run of IsEvenWorks fails, with exactly
\* the one failure of line 19, whatever the marker; the marker is not even
\* opened.
C3_FlagAlwaysFails ==
    (pc = "done" /\ FAIL_TEST)
        => (failures = 1 /\ branch = "flag" /\ Count("open") = 0)

C3_Witness ==
    /\ pc = "done" /\ FAIL_TEST
    /\ pre.exists /\ pre.readable
    /\ failures > 0

\* C4: for every int v, negative ones included, is_even(v) is true exactly
\* when v is divisible by two.
C4_IsEvenIffDivisible ==
    Called("is_even") => (e1 <=> DivisibleByTwo(x))

C4_Witness ==
    Called("is_even") /\ x = -3 /\ e1 = FALSE

\* C5 (as claimed): for every int v, INT_MIN and INT_MAX included,
\* is_even(v) = is_even(-v) and is_even(v) # is_even(v + 1), with -v and
\* v + 1 computed in int.
C5_NegSuccAllInts ==
    /\ Called("neg") => (e1 = e2)
    /\ Called("succ") => (e1 # e2)

\* C5 (amended): is_even(v) = is_even(-v) for every int v > INT_MIN, and
\* is_even(v) # is_even(v + 1) for every int v < INT_MAX.
C5_NegSuccRepresentable ==
    /\ (Called("neg") /\ x > INT_MIN) => (y = -x /\ e1 = e2)
    /\ (Called("succ") /\ x < INT_MAX) => (y = x + 1 /\ e1 # e2)

C5_Witness ==
    Called("neg") /\ x = -3 /\ y = 3 /\ e1 = FALSE /\ e2 = FALSE

\* C6: for all ints a, b whose sum is representable, add(a, b) is exactly
\* a + b; the two cases of AddWorks (add(1,2) == 3, add(-5,5) == 0) pass.
C6_AddIsSum ==
    /\ (Called("add") /\ (x + y) \in IntT) => r1 = x + y
    /\ pc = "add_done" => failures = 0

C6_Witness ==
    Called("add") /\ x = -5 /\ y = 5 /\ r1 = 0

\* C7 (as claimed): for all ints a, b: add(a, b) = add(b, a), and
\* add(a, 0) = a.
C7_CommutativeAllInts ==
    /\ Called("comm") => r1 = r2
    /\ Called("ident") => r1 = x

\* C7 (amended): for all ints a, b whose sum is representable,
\* add(a, b) = add(b, a); and for every int a, add(a, 0) = a.
C7_CommutativeRepresentable ==
    /\ (Called("comm") /\ (x + y) \in IntT) => r1 = r2
    /\ Called("ident") => r1 = x

C7_Witness ==
    Called("comm") /\ x = 1 /\ y = 2 /\ r1 = 3 /\ r2 = 3

\* C8 (as claimed): built without FAIL_TEST, the branch IsEvenWorks takes
\* depends only on whether the marker exists: marker-present branch iff
\* the file exists, whatever its content or permissions.
C8_BranchIffMarkerExists ==
    NoFlagRunDone => (branch = "present" <=> pre.exists)

\* C9: a test run never creates or deletes the marker: at every point of
\* a run, in either build and on every branch, the marker is as it was
\* when the run started.
C9_MarkerUntouched ==
    pc \notin {"idle", "called"}
        => (marker.exists = pre.exists /\ marker = pre)

C9_Witness ==
    /\ pc = "done" /\ Count("open") = 1
    /\ branch = "absent" /\ ~pre.exists /\ ~marker.exists

\* C10 (as claimed): in every run of IsEvenWorks, in either build,
\* is_even(3) is computed, and it is computed before the marker is checked.
C10_CallBeforeCheck ==
    /\ pc = "done" => Count("is_even(3)") >= 1
    /\ Count("open") > 0
         => (First("is_even(3)") > 0 /\ First("is_even(3)") < First("open"))

\* C10 (amended): built without FAIL_TEST, the marker is checked first and
\* is_even(3) is computed only afterwards, exactly once, on the branch
\* chosen; built with FAIL_TEST, is_even(3) is never computed and the
\* marker never checked.
C10_CheckBeforeCall ==
    /\ Count("is_even(3)") > 0
         => (First("open") > 0 /\ First("open") < First("is_even(3)"))
    /\ NoFlagRunDone => (Count("is_even(3)") = 1 /\ Count("open") = 1)
    /\ FAIL_TEST => (Count("is_even(3)") = 0 /\ Count("open") = 0)

C10_Witness ==
    /\ NoFlagRunDone
    /\ log = <<"is_even(2)", "open", "is_even(3)">>
    /\ branch = "present"

====
